---- MODULE Spec2Model ----
(***************************************************************************)
(* Model of the OpenStack lifecycle orchestrator of libretto               *)
(* (virtualmachine/openstack/vm.go): Provision, Destroy, Halt, Start,     *)
(* GetState and MarshalJSON acting on one VM descriptor against a scripted *)
(* provider.                                                               *)
(*                                                                         *)
(* vm is the descriptor; cloud is the provider: how many instances it has  *)
(* created and which instances and floating IPs exist; last is what the    *)
(* operation that has just returned did: its name, the calls it made, the  *)
(* error, state or record it returned.                                     *)
(*                                                                         *)
(* Identifiers handed out by the provider are naturals, 0 standing for the *)
(* empty string; errors are sequences of message parts, the empty sequence *)
(* standing for a nil error, and fmt.Errorf concatenates the parts.        *)
(***************************************************************************)
EXTENDS Integers, Sequences, FiniteSets, TLC

VARIABLES vm, cloud, last

vars == <<vm, cloud, last>>

\* Number of instance-create calls the provider accepts in one behaviour.
MaxInstances == 2

(***************************************************************************)
(* Values                                                                  *)
(***************************************************************************)
\* The empty identifier, vm.InstanceID == "" / vm.Volume.ID == "".
NoID == 0

\* A nil error.
Nil == << >>

\* vm.FloatingIP == nil
NilFloatingIP == [ID |-> 0, IP |-> 0]

\* The record floatingips.Create returns: a provider identifier and an address.
NewFloatingIP(n) == [ID |-> n, IP |-> 100 + n]

StateActive == "ACTIVE"
StateShutOff == "SHUTOFF"
StateError == "ERROR"

VMRunning == "running"
VMHalted == "halted"
VMError == "error"
VMUnknown == "unknown"

ErrNoFlavor == <<"Requested flavor is not found">>
ErrNoInstanceID == <<"Missing instance ID">>
ErrAuthenticatingClient == <<"Failed to authenticate the client">>
ErrActionTimeout == <<"Openstack action timeout">>
ErrVMInfoFailed == <<"failed to get vm info">>

\* Status strings a provider may report; BUILD stands for every other one.
Statuses == {StateActive, StateShutOff, StateError, "BUILD"}

\* An error printed with %s: a nil error prints as a placeholder.
ErrString(e) == IF e = Nil THEN <<"%!s(<nil>)">> ELSE e

\* One entry of the record of calls made to the provider: the call, the
\* identifier or address it names, whether it succeeded, and what it returned.
CallRes(name, arg, ok, res) == [call |-> name, arg |-> arg, ok |-> ok, res |-> res]

Call(name, arg, ok) == CallRes(name, arg, ok, "")

\* What an operation leaves behind: descriptor, provider, calls, returned error.
Ret(s, err) == [vm |-> s.vm, cloud |-> s.cloud, calls |-> s.calls, err |-> err]

\* What a call does to the resources of the provider: a successful create
\* adds the resource it returns, a successful delete removes the one it names,
\* and a call that fails leaves the resources as they are.
Provider(c, call) ==
    IF call.call = "servers.Create" /\ call.ok
    THEN [c EXCEPT !.servers = @ \cup {call.arg}]
    ELSE IF call.call = "floatingips.Create" /\ call.ok
    THEN [c EXCEPT !.fips = @ \cup {call.arg}]
    ELSE IF call.call = "servers.Delete"
    THEN IF call.ok THEN [c EXCEPT !.servers = @ \ {call.arg}] ELSE c
    ELSE IF call.call = "floatingips.Delete"
    THEN IF call.ok THEN [c EXCEPT !.fips = @ \ {call.arg}] ELSE c
    ELSE c

\* A call reaches the provider and is recorded.
Log(s, c) == [s EXCEPT !.calls = Append(@, c), !.cloud = Provider(@, c)]

(***************************************************************************)
(* Scripted provider responses                                             *)
(***************************************************************************)
ProvisionEnvDefault ==
    [client |-> TRUE, flavor |-> TRUE, find |-> "found", upload |-> TRUE,
     create |-> TRUE, run |-> "ok", fipCreate |-> TRUE, assoc |-> TRUE,
     fipDelete |-> TRUE, ssh |-> TRUE, vol |-> "ok"]

AllProvisionEnvs ==
    [client : BOOLEAN, flavor : BOOLEAN, find : {"err", "none", "found"},
     upload : BOOLEAN, create : BOOLEAN, run : {"ok", "timeout", "error"},
     fipCreate : BOOLEAN, assoc : BOOLEAN, fipDelete : BOOLEAN, ssh : BOOLEAN,
     vol : {"ok", "createFail", "attachFail"}]

\* A response that no call can ask for is left at its default.
ProvisionEnvCanonical(e) ==
    LET d == ProvisionEnvDefault
        rFlavor == e.client
        rFind == rFlavor /\ e.flavor
        rUpload == rFind /\ e.find = "none"
        rCreate == rFind /\ e.find # "err" /\ (e.find = "none" => e.upload)
        rRun == rCreate /\ e.create
        rFipCreate == rRun /\ e.run = "ok"
        rAssoc == rFipCreate /\ e.fipCreate
        rFipDelete == rAssoc /\ ~e.assoc
        rSsh == rAssoc /\ e.assoc
        rVol == rSsh /\ e.ssh
    IN  /\ (~rFlavor => e.flavor = d.flavor)
        /\ (~rFind => e.find = d.find)
        /\ (~rUpload => e.upload = d.upload)
        /\ (~rCreate => e.create = d.create)
        /\ (~rRun => e.run = d.run)
        /\ (~rFipCreate => e.fipCreate = d.fipCreate)
        /\ (~rAssoc => e.assoc = d.assoc)
        /\ (~rFipDelete => e.fipDelete = d.fipDelete)
        /\ (~rSsh => e.ssh = d.ssh)
        /\ (~rVol => e.vol = d.vol)

ProvisionEnvs == {e \in AllProvisionEnvs : ProvisionEnvCanonical(e)}

DestroyEnvDefault ==
    [client |-> TRUE, disassoc |-> TRUE, fipDelete |-> TRUE, vol |-> "ok",
     delete |-> TRUE]

AllDestroyEnvs ==
    [client : BOOLEAN, disassoc : BOOLEAN, fipDelete : BOOLEAN,
     vol : {"ok", "detachFail", "deleteFail"}, delete : BOOLEAN]

DestroyEnvCanonical(e) ==
    LET d == DestroyEnvDefault
    IN  /\ (~e.client => /\ e.disassoc = d.disassoc
                         /\ e.vol = d.vol
                         /\ e.delete = d.delete)
        /\ (~(e.client /\ e.disassoc) => e.fipDelete = d.fipDelete)

DestroyEnvs == {e \in AllDestroyEnvs : DestroyEnvCanonical(e)}

PowerEnvDefault ==
    [client |-> TRUE, server |-> StateActive, action |-> TRUE, wait |-> "ok"]

AllPowerEnvs ==
    [client : BOOLEAN, server : {"err", "nil"} \cup Statuses,
     action : BOOLEAN, wait : {"ok", "timeout", "error"}]

PowerEnvCanonical(e) ==
    LET d == PowerEnvDefault
    IN  /\ (~e.client => e.server = d.server /\ e.action = d.action)
        /\ (~e.action => e.wait = d.wait)

PowerEnvs == {e \in AllPowerEnvs : PowerEnvCanonical(e)}

(***************************************************************************)
(* Helpers of the package                                                  *)
(***************************************************************************)
\* The compute client is kept on the descriptor once obtained; obtaining it
\* authenticates against the provider and may fail.
getComputeClient(s, ok) ==
    IF s.vm.computeClient
    THEN [s |-> s, err |-> Nil]
    ELSE IF ok
         THEN [s |-> [s EXCEPT !.vm.computeClient = TRUE], err |-> Nil]
         ELSE [s |-> s, err |-> ErrAuthenticatingClient]

\* Detach path: detach the volume, wait until it is available, delete it.
\* Each failing step ends the path with its own error.
deattachAndDeleteVolume(s, outcome) ==
    LET id == s.vm.Volume.ID
        s1 == Log(s, Call("volumeattach.Delete", id, outcome # "detachFail"))
        s2 == Log(s1, Call("volumes.Delete", id, outcome = "ok"))
    IN  IF outcome = "detachFail"
        THEN [s |-> s1, err |-> <<"failed to detach the volume:", "volumeattach.Delete">>]
        ELSE IF outcome = "deleteFail"
             THEN [s |-> s2, err |-> <<"failed to delete the volume:", "volumes.Delete">>]
             ELSE [s |-> s2, err |-> Nil]

\* Asks the provider to delete the instance.
deleteVM(s, id, ok) ==
    LET s1 == Log(s, Call("servers.Delete", id, ok))
    IN  IF ok
        THEN [s |-> s1, err |-> Nil]
        ELSE [s |-> s1, err |-> <<"failed to delete the instance:", "servers.Delete">>]

(***************************************************************************)
(* Destroy                                                                 *)
(***************************************************************************)
\* The errors collected by the stages, joined into the returned error.
RECURSIVE returnedErr(_)
returnedErr(errors) ==
    IF Len(errors) = 0 THEN Nil
    ELSE IF Len(errors) = 1 THEN errors[1]
    ELSE returnedErr(SubSeq(errors, 1, Len(errors) - 1)) \o errors[Len(errors)]

\* A floating IP stage that attempts the delete whatever the disassociate did.
DestroyFloatingIP_DeleteAlways(s, de) ==
    IF s.vm.FloatingIP # NilFloatingIP
    THEN LET fip == s.vm.FloatingIP
             s1 == Log(s, Call("floatingips.DisassociateInstance", fip.IP, de.disassoc))
             s2 == Log(s1, Call("floatingips.Delete", fip.ID, de.fipDelete))
             e1 == IF de.disassoc THEN << >>
                   ELSE << <<"unable to disassociate floating ip from instance:",
                             "floatingips.DisassociateInstance">> >>
             e2 == IF de.fipDelete THEN << >>
                   ELSE << <<"unable to delete floating ip:", "floatingips.Delete">> >>
         IN  [s |-> s2, errors |-> e1 \o e2]
    ELSE [s |-> s, errors |-> << >>]

\* Stage 1: disassociate the floating IP, and delete it once disassociated.
DestroyFloatingIP(s, de) ==
    IF s.vm.FloatingIP # NilFloatingIP
    THEN LET fip == s.vm.FloatingIP
             s1 == Log(s, Call("floatingips.DisassociateInstance", fip.IP, de.disassoc))
             s2 == Log(s1, Call("floatingips.Delete", fip.ID, de.fipDelete))
         IN  IF ~de.disassoc
             THEN [s |-> s1,
                   errors |-> << <<"unable to disassociate floating ip from instance:",
                                   "floatingips.DisassociateInstance">> >>]
             ELSE IF ~de.fipDelete
                  THEN [s |-> s2,
                        errors |-> << <<"unable to delete floating ip:",
                                        "floatingips.Delete">> >>]
                  ELSE [s |-> s2, errors |-> << >>]
    ELSE [s |-> s, errors |-> << >>]

\* Stage 2: detach and delete the volume, if one is attached.
DestroyVolume(r, de) ==
    IF r.s.vm.Volume.ID # NoID
    THEN LET v == deattachAndDeleteVolume(r.s, de.vol)
         IN  IF v.err # Nil
             THEN [s |-> v.s, errors |-> Append(r.errors, v.err)]
             ELSE [s |-> v.s, errors |-> r.errors]
    ELSE r

\* Stage 3: delete the instance.
DestroyInstance(r, de) ==
    LET d == deleteVM(r.s, r.s.vm.InstanceID, de.delete)
    IN  IF d.err # Nil
        THEN [s |-> d.s, errors |-> Append(r.errors, d.err)]
        ELSE [s |-> d.s, errors |-> r.errors]

\* A Destroy that deletes the instance before the other stages.
Destroy_InstanceFirst(s, de) ==
    IF s.vm.InstanceID = NoID
    THEN Ret(s, ErrNoInstanceID)
    ELSE LET c == getComputeClient(s, de.client)
         IN  IF c.err # Nil
             THEN Ret(c.s, <<"compute client is not set for the VM,">> \o c.err)
             ELSE LET i == DestroyInstance([s |-> c.s, errors |-> << >>], de)
                      f == DestroyFloatingIP(i.s, de)
                      r == DestroyVolume([s |-> f.s, errors |-> i.errors \o f.errors], de)
                  IN  Ret([r.s EXCEPT !.vm.computeClient = FALSE],
                          returnedErr(r.errors))

\* A Destroy that empties the descriptor once the stages have run.
Destroy_Clearing(s, de) ==
    IF s.vm.InstanceID = NoID
    THEN Ret(s, ErrNoInstanceID)
    ELSE LET c == getComputeClient(s, de.client)
         IN  IF c.err # Nil
             THEN Ret(c.s, <<"compute client is not set for the VM,">> \o c.err)
             ELSE LET r == DestroyInstance(DestroyVolume(DestroyFloatingIP(c.s, de), de), de)
                  IN  Ret([r.s EXCEPT !.vm.computeClient = FALSE,
                                      !.vm.InstanceID = NoID,
                                      !.vm.FloatingIP = NilFloatingIP],
                          returnedErr(r.errors))

\* A Destroy that does not look at the instance identifier first.
Destroy_NoIDCheck(s, de) ==
    LET c == getComputeClient(s, de.client)
    IN  IF c.err # Nil
        THEN Ret(c.s, <<"compute client is not set for the VM,">> \o c.err)
        ELSE LET r == DestroyInstance(DestroyVolume(DestroyFloatingIP(c.s, de), de), de)
             IN  Ret([r.s EXCEPT !.vm.computeClient = FALSE],
                     returnedErr(r.errors))

\* A Destroy that gives up once the floating IP stage has failed.
Destroy_ShortCircuit(s, de) ==
    IF s.vm.InstanceID = NoID
    THEN Ret(s, ErrNoInstanceID)
    ELSE LET c == getComputeClient(s, de.client)
         IN  IF c.err # Nil
             THEN Ret(c.s, <<"compute client is not set for the VM,">> \o c.err)
             ELSE LET f == DestroyFloatingIP(c.s, de)
                      r == DestroyInstance(DestroyVolume(f, de), de)
                  IN  IF Len(f.errors) > 0
                      THEN Ret([f.s EXCEPT !.vm.computeClient = FALSE],
                               returnedErr(f.errors))
                      ELSE Ret([r.s EXCEPT !.vm.computeClient = FALSE],
                               returnedErr(r.errors))

Destroy(s, de) ==
    IF s.vm.InstanceID = NoID
    THEN Ret(s, ErrNoInstanceID)
    ELSE LET c == getComputeClient(s, de.client)
         IN  IF c.err # Nil
             THEN Ret(c.s, <<"compute client is not set for the VM,">> \o c.err)
             ELSE LET r == DestroyInstance(DestroyVolume(DestroyFloatingIP(c.s, de), de), de)
                  IN  Ret([r.s EXCEPT !.vm.computeClient = FALSE],
                          returnedErr(r.errors))

(***************************************************************************)
(* Provision                                                               *)
(***************************************************************************)
\* Searches the images by name: the first match, or none.
findImageIDByName(s, outcome) ==
    [s |-> Log(s, CallRes("images.List", 0, outcome # "err",
                          IF outcome = "found" THEN "img-found" ELSE "")),
     id |-> IF outcome = "found" THEN "img-found" ELSE "",
     err |-> IF outcome = "err" THEN <<"images.List">> ELSE Nil]

\* Uploads the image described by the metadata and waits until it is ready.
createImage(s, ok) ==
    [s |-> Log(s, Call("images.Create", 0, ok)),
     id |-> IF ok THEN "img-uploaded" ELSE "",
     err |-> IF ok THEN Nil ELSE <<"images.Create">>]

\* Polls the state of the instance until it is the wanted one, the instance
\* reports an error, or the deadline passes.
waitUntil(s, state, outcome) ==
    [s |-> Log(s, Call("waitUntil", s.vm.InstanceID, outcome = "ok")),
     err |-> IF outcome = "ok" THEN Nil
             ELSE IF outcome = "timeout" THEN ErrActionTimeout
             ELSE <<"failed to bring the VM to state:", state>>]

\* Polls until an SSH connection to the instance succeeds or the deadline passes.
waitUntilSSHReady(s, ok) ==
    [s |-> Log(s, Call("waitUntilSSHReady", s.vm.InstanceID, ok)),
     err |-> IF ok THEN Nil ELSE <<"ssh not ready:">> \o ErrActionTimeout]

\* Attach path: create the volume, wait until it is available, attach it, and
\* only then record its identifier on the descriptor.
createAndAttachVolume(s, outcome) ==
    LET id == s.vm.InstanceID
        s1 == Log(s, Call("volumes.Create", id, outcome # "createFail"))
        s2 == Log(s1, Call("volumeattach.Create", id, outcome = "ok"))
    IN  IF outcome = "createFail"
        THEN [s |-> s1, err |-> <<"failed to create the volume:", "volumes.Create">>]
        ELSE IF outcome = "attachFail"
             THEN [s |-> s2, err |-> <<"failed to attach the volume:", "volumeattach.Create">>]
             ELSE [s |-> [s2 EXCEPT !.vm.Volume.ID = id], err |-> Nil]

\* cleanup that returns the error without tearing anything down.
cleanup_NoDestroy(s, err, de) == Ret(s, err)

\* cleanup that returns the error of Destroy in place of the cause.
cleanup_HidesCause(s, err, de) ==
    LET d == Destroy(s, de)
    IN  IF d.err # Nil
        THEN d
        ELSE [d EXCEPT !.err = err]

\* Cleanup VM if something goes wrong.
cleanup(s, err, de) ==
    LET d == Destroy(s, de)
    IN  IF d.err # Nil
        THEN [d EXCEPT !.err = err \o d.err]
        ELSE [d EXCEPT !.err = err]

\* An image resolution that uses the image it resolved without recording it.
resolveImage_NotStored(s, pe) ==
    IF s.vm.ImageID = ""
    THEN LET f == findImageIDByName(s, pe.find)
         IN  IF f.err # Nil
             THEN [s |-> f.s, err |-> <<"error on searching image:">> \o f.err]
             ELSE IF f.id = ""
                  THEN LET u == createImage(f.s, pe.upload)
                       IN  IF u.err # Nil
                           THEN [s |-> u.s, err |-> u.err]
                           ELSE [s |-> u.s, err |-> Nil]
                  ELSE [s |-> f.s, err |-> Nil]
    ELSE [s |-> s, err |-> Nil]

\* Fetch an image ID: the one on the descriptor, else found by name, else uploaded.
resolveImage(s, pe) ==
    IF s.vm.ImageID = ""
    THEN LET f == findImageIDByName(s, pe.find)
         IN  IF f.err # Nil
             THEN [s |-> f.s, err |-> <<"error on searching image:">> \o f.err]
             ELSE IF f.id = ""
                  THEN LET u == createImage(f.s, pe.upload)
                       IN  IF u.err # Nil
                           THEN [s |-> u.s, err |-> u.err]
                           ELSE [s |-> [u.s EXCEPT !.vm.ImageID = u.id], err |-> Nil]
                  ELSE [s |-> [f.s EXCEPT !.vm.ImageID = f.id], err |-> Nil]
    ELSE [s |-> s, err |-> Nil]

\* A last part of Provision that does not look at the SSH readiness result.
ProvisionFinish_IgnoreSSH(s, pe, de) ==
    LET w == waitUntilSSHReady(s, pe.ssh)
    IN  IF w.s.vm.Volume.Size > 0
        THEN LET v == createAndAttachVolume(w.s, pe.vol)
             IN  IF v.err # Nil
                 THEN cleanup(v.s, v.err, de)
                 ELSE Ret(v.s, Nil)
        ELSE Ret(w.s, Nil)

\* Wait until the VM gets ready for SSH, then create and attach the volume.
ProvisionFinish(s, pe, de) ==
    LET w == waitUntilSSHReady(s, pe.ssh)
    IN  IF w.err # Nil
        THEN cleanup(w.s, w.err, de)
        ELSE IF w.s.vm.Volume.Size > 0
             THEN LET v == createAndAttachVolume(w.s, pe.vol)
                  IN  IF v.err # Nil
                      THEN cleanup(v.s, v.err, de)
                      ELSE Ret(v.s, Nil)
             ELSE Ret(w.s, Nil)

\* A floating IP step that does not look at the name of the pool.
ProvisionFloatingIP_NoPoolCheck(s, serverID, pe, de) ==
    LET fip == NewFloatingIP(serverID)
        s1 == Log(s, Call("floatingips.Create", IF pe.fipCreate THEN fip.ID ELSE 0,
                          pe.fipCreate))
    IN  IF ~pe.fipCreate
        THEN cleanup(s1, <<"unable to create a floating ip:", "floatingips.Create">>, de)
        ELSE LET s2 == Log(s1, Call("floatingips.AssociateInstance", fip.IP, pe.assoc))
             IN  IF ~pe.assoc
                 THEN LET s3 == Log(s2, Call("floatingips.Delete", fip.ID, pe.fipDelete))
                          errFipDelete == IF pe.fipDelete THEN Nil
                                          ELSE <<"floatingips.Delete">>
                          err == <<"floatingips.AssociateInstance">>
                                     \o ErrString(errFipDelete)
                      IN  cleanup(s3, <<"unable to associate a floating ip:">> \o err, de)
                 ELSE ProvisionFinish([s2 EXCEPT !.vm.FloatingIP = fip], pe, de)

\* A floating IP step that records the floating IP before it is associated.
ProvisionFloatingIP_StoreBeforeAssociate(s, serverID, pe, de) ==
    IF s.vm.FloatingIPPool = ""
    THEN cleanup(s, <<"empty floating IP pool">>, de)
    ELSE LET fip == NewFloatingIP(serverID)
             s1 == Log(s, Call("floatingips.Create", IF pe.fipCreate THEN fip.ID ELSE 0,
                               pe.fipCreate))
         IN  IF ~pe.fipCreate
             THEN cleanup(s1, <<"unable to create a floating ip:", "floatingips.Create">>, de)
             ELSE LET s2 == Log([s1 EXCEPT !.vm.FloatingIP = fip],
                                Call("floatingips.AssociateInstance", fip.IP, pe.assoc))
                  IN  IF ~pe.assoc
                      THEN LET s3 == Log(s2, Call("floatingips.Delete", fip.ID, pe.fipDelete))
                               errFipDelete == IF pe.fipDelete THEN Nil
                                               ELSE <<"floatingips.Delete">>
                               err == <<"floatingips.AssociateInstance">>
                                          \o ErrString(errFipDelete)
                           IN  cleanup(s3, <<"unable to associate a floating ip:">> \o err, de)
                      ELSE ProvisionFinish(s2, pe, de)

\* A floating IP step that leaves the allocated IP behind when the association
\* fails.
ProvisionFloatingIP_NoCompensation(s, serverID, pe, de) ==
    IF s.vm.FloatingIPPool = ""
    THEN cleanup(s, <<"empty floating IP pool">>, de)
    ELSE LET fip == NewFloatingIP(serverID)
             s1 == Log(s, Call("floatingips.Create", IF pe.fipCreate THEN fip.ID ELSE 0,
                               pe.fipCreate))
         IN  IF ~pe.fipCreate
             THEN cleanup(s1, <<"unable to create a floating ip:", "floatingips.Create">>, de)
             ELSE LET s2 == Log(s1, Call("floatingips.AssociateInstance", fip.IP,
                                         pe.assoc))
                  IN  IF ~pe.assoc
                      THEN cleanup(s2, <<"unable to associate a floating ip:",
                                         "floatingips.AssociateInstance">>, de)
                      ELSE ProvisionFinish([s2 EXCEPT !.vm.FloatingIP = fip], pe, de)

\* Create and associate a floating IP for the instance the provider returned.
ProvisionFloatingIP(s, serverID, pe, de) ==
    IF s.vm.FloatingIPPool = ""
    THEN cleanup(s, <<"empty floating IP pool">>, de)
    ELSE LET fip == NewFloatingIP(serverID)
             s1 == Log(s, Call("floatingips.Create", IF pe.fipCreate THEN fip.ID ELSE 0,
                               pe.fipCreate))
         IN  IF ~pe.fipCreate
             THEN cleanup(s1, <<"unable to create a floating ip:", "floatingips.Create">>, de)
             ELSE LET s2 == Log(s1, Call("floatingips.AssociateInstance", fip.IP,
                                         pe.assoc))
                  IN  IF ~pe.assoc
                      THEN LET s3 == Log(s2, Call("floatingips.Delete", fip.ID, pe.fipDelete))
                               errFipDelete == IF pe.fipDelete THEN Nil
                                               ELSE <<"floatingips.Delete">>
                               err == <<"floatingips.AssociateInstance">>
                                          \o ErrString(errFipDelete)
                           IN  cleanup(s3, <<"unable to associate a floating ip:">> \o err, de)
                      ELSE ProvisionFinish([s2 EXCEPT !.vm.FloatingIP = fip], pe, de)

\* A creation step that tears down when the create call itself fails.
ProvisionCreate_TeardownOnCreateFailure(s, pe, de) ==
    LET id == s.cloud.created + 1
        s1 == Log(s, Call("servers.Create", IF pe.create THEN id ELSE 0, pe.create))
    IN  IF ~pe.create
        THEN cleanup(s1, <<"servers.Create">>, de)
        ELSE LET s2 == [s1 EXCEPT !.cloud.created = id, !.vm.InstanceID = id]
                 w == waitUntil(s2, VMRunning, pe.run)
             IN  IF w.err # Nil
                 THEN cleanup(w.s, w.err, de)
                 ELSE ProvisionFloatingIP(w.s, id, pe, de)

\* A creation step that records the identifier once the instance runs.
ProvisionCreate_RecordAfterWait(s, pe, de) ==
    LET id == s.cloud.created + 1
        s1 == Log(s, Call("servers.Create", IF pe.create THEN id ELSE 0, pe.create))
    IN  IF ~pe.create
        THEN Ret(s1, <<"servers.Create">>)
        ELSE LET s2 == [s1 EXCEPT !.cloud.created = id]
                 w == waitUntil(s2, VMRunning, pe.run)
             IN  IF w.err # Nil
                 THEN cleanup(w.s, w.err, de)
                 ELSE ProvisionFloatingIP([w.s EXCEPT !.vm.InstanceID = id], id, pe, de)

\* Create the instance, record its identifier, wait until it runs.
ProvisionCreate(s, pe, de) ==
    LET id == s.cloud.created + 1
        s1 == Log(s, Call("servers.Create", IF pe.create THEN id ELSE 0, pe.create))
    IN  IF ~pe.create
        THEN Ret(s1, <<"servers.Create">>)
        ELSE LET s2 == [s1 EXCEPT !.cloud.created = id, !.vm.InstanceID = id]
                 w == waitUntil(s2, VMRunning, pe.run)
             IN  IF w.err # Nil
                 THEN cleanup(w.s, w.err, de)
                 ELSE ProvisionFloatingIP(w.s, id, pe, de)

\* A Provision that resolves the image before it looks at the flavor.
Provision_ImageFirst(s, pe, de) ==
    LET c == getComputeClient(s, pe.client)
    IN  IF c.err # Nil
        THEN Ret(c.s, <<"compute client is not set for the VM:">> \o c.err)
        ELSE LET i == resolveImage(c.s, pe)
                 s1 == Log(i.s, Call("flavors.IDFromName", 0, pe.flavor))
             IN  IF i.err # Nil
                 THEN Ret(i.s, i.err)
                 ELSE IF ~pe.flavor
                      THEN Ret(s1, ErrNoFlavor)
                      ELSE ProvisionCreate(s1, pe, de)

\* A Provision that refuses a descriptor that already names an instance.
Provision_FailFast(s, pe, de) ==
    IF s.vm.InstanceID # NoID
    THEN Ret(s, <<"instance already provisioned">>)
    ELSE LET c == getComputeClient(s, pe.client)
         IN  IF c.err # Nil
             THEN Ret(c.s, <<"compute client is not set for the VM:">> \o c.err)
             ELSE LET s1 == Log(c.s, Call("flavors.IDFromName", 0, pe.flavor))
                  IN  IF ~pe.flavor
                      THEN Ret(s1, ErrNoFlavor)
                      ELSE LET i == resolveImage(s1, pe)
                           IN  IF i.err # Nil
                               THEN Ret(i.s, i.err)
                               ELSE ProvisionCreate(i.s, pe, de)

Provision(s, pe, de) ==
    LET c == getComputeClient(s, pe.client)
    IN  IF c.err # Nil
        THEN Ret(c.s, <<"compute client is not set for the VM:">> \o c.err)
        ELSE LET s1 == Log(c.s, Call("flavors.IDFromName", 0, pe.flavor))
             IN  IF ~pe.flavor
                 THEN Ret(s1, ErrNoFlavor)
                 ELSE LET i == resolveImage(s1, pe)
                      IN  IF i.err # Nil
                          THEN Ret(i.s, i.err)
                          ELSE ProvisionCreate(i.s, pe, de)

(***************************************************************************)
(* GetState, Halt, Start                                                   *)
(***************************************************************************)
\* Fetches the server of the descriptor from the provider: an error, no
\* server, or a server with a status.  A query only reads the descriptor.
getServer(s, he) ==
    IF s.vm.InstanceID = NoID
    THEN [s |-> s, server |-> "nil", err |-> ErrNoInstanceID]
    ELSE IF ~s.vm.computeClient /\ ~he.client
         THEN [s |-> s, server |-> "nil", err |-> ErrAuthenticatingClient]
         ELSE LET s1 == Log(s, CallRes("servers.Get", s.vm.InstanceID,
                                       he.server # "err", he.server))
              IN  IF he.server = "err"
                  THEN [s |-> s1, server |-> "nil", err |-> <<"servers.Get">>]
                  ELSE [s |-> s1, server |-> he.server, err |-> Nil]

\* A GetState that knows no error status.
GetState_NoErrorStatus(s, he) ==
    LET g == getServer(s, he)
    IN  IF g.err # Nil
        THEN [s |-> g.s, state |-> "", err |-> g.err]
        ELSE IF g.server = "nil"
             THEN [s |-> g.s, state |-> "", err |-> ErrVMInfoFailed]
             ELSE IF g.server = StateActive
                  THEN [s |-> g.s, state |-> VMRunning, err |-> Nil]
                  ELSE IF g.server = StateShutOff
                       THEN [s |-> g.s, state |-> VMHalted, err |-> Nil]
                       ELSE [s |-> g.s, state |-> VMUnknown, err |-> Nil]

GetState(s, he) ==
    LET g == getServer(s, he)
    IN  IF g.err # Nil
        THEN [s |-> g.s, state |-> "", err |-> g.err]
        ELSE IF g.server = "nil"
             THEN [s |-> g.s, state |-> "", err |-> ErrVMInfoFailed]
             ELSE IF g.server = StateActive
                  THEN [s |-> g.s, state |-> VMRunning, err |-> Nil]
                  ELSE IF g.server = StateShutOff
                       THEN [s |-> g.s, state |-> VMHalted, err |-> Nil]
                       ELSE IF g.server = StateError
                            THEN [s |-> g.s, state |-> VMError, err |-> Nil]
                            ELSE [s |-> g.s, state |-> VMUnknown, err |-> Nil]

\* A Halt that stops the instance whatever state it is in.
Halt_NoStateCheck(s, he) ==
    IF s.vm.InstanceID = NoID
    THEN Ret(s, ErrNoInstanceID)
    ELSE LET c == getComputeClient(s, he.client)
         IN  IF c.err # Nil
             THEN Ret(c.s, <<"compute client is not set for the VM,">> \o c.err)
             ELSE LET g == GetState(c.s, he)
                  IN  IF g.err # Nil
                      THEN Ret(g.s, g.err)
                      ELSE LET s1 == Log(g.s, Call("startstop.Stop",
                                                   g.s.vm.InstanceID, he.action))
                           IN  IF ~he.action
                               THEN Ret(s1, <<"failed to stop the instance:",
                                              "startstop.Stop">>)
                               ELSE LET w == waitUntil(s1, VMHalted, he.wait)
                                    IN  Ret(w.s, w.err)

Halt(s, he) ==
    IF s.vm.InstanceID = NoID
    THEN Ret(s, ErrNoInstanceID)
    ELSE LET c == getComputeClient(s, he.client)
         IN  IF c.err # Nil
             THEN Ret(c.s, <<"compute client is not set for the VM,">> \o c.err)
             ELSE LET g == GetState(c.s, he)
                  IN  IF g.err # Nil
                      THEN Ret(g.s, g.err)
                      ELSE IF g.state # VMRunning
                           THEN Ret(g.s, <<"the VM is not active, so cannot be halted">>)
                           ELSE LET s1 == Log(g.s, Call("startstop.Stop",
                                                        g.s.vm.InstanceID, he.action))
                                IN  IF ~he.action
                                    THEN Ret(s1, <<"failed to stop the instance:",
                                                   "startstop.Stop">>)
                                    ELSE LET w == waitUntil(s1, VMHalted, he.wait)
                                         IN  Ret(w.s, w.err)

Start(s, he) ==
    IF s.vm.InstanceID = NoID
    THEN Ret(s, ErrNoInstanceID)
    ELSE LET c == getComputeClient(s, he.client)
         IN  IF c.err # Nil
             THEN Ret(c.s, <<"compute client is not set for the VM,">> \o c.err)
             ELSE LET g == GetState(c.s, he)
                  IN  IF g.err # Nil
                      THEN Ret(g.s, g.err)
                      ELSE IF g.state # VMHalted
                           THEN Ret(g.s, <<"VM is not in halted state">>)
                           ELSE LET s1 == Log(g.s, Call("startstop.Start",
                                                        g.s.vm.InstanceID, he.action))
                                IN  IF ~he.action
                                    THEN Ret(s1, <<"failed to start the instance">>)
                                    ELSE LET w == waitUntilSSHReady(s1, he.wait = "ok")
                                         IN  Ret(w.s, w.err)

(***************************************************************************)
(* MarshalJSON                                                             *)
(***************************************************************************)
\* A JSON object is a set of <<key, value>> pairs with one pair per key.
SetKey(obj, key, value) == {p \in obj : p[1] # key} \cup {<<key, value>>}

HasKey(obj, key) == \E p \in obj : p[1] = key

ValueOf(obj, key) == (CHOOSE p \in obj : p[1] = key)[2]

\* What json.Marshal followed by json.Unmarshal into an interface{} makes of
\* the FloatingIP pointer of the alias: null for a nil pointer, else an object
\* with the address under "ip" and without the identifier.
jsonFloatingIP(fip) ==
    IF fip = NilFloatingIP
    THEN [null |-> TRUE, obj |-> {}]
    ELSE [null |-> FALSE, obj |-> {<<"ip", fip.IP>>}]

\* The record before any serialization.
NoJSON ==
    [result |-> "none",
     record |-> [ImageID |-> "", InstanceID |-> NoID, FloatingIPPool |-> "",
                 Volume |-> [ID |-> NoID, Size |-> 0],
                 FloatingIP |-> jsonFloatingIP(NilFloatingIP)]]

\* A serialization that leaves the record as json.Marshal makes it.
MarshalJSON_Plain(v) ==
    LET alias == [ImageID |-> v.ImageID, Volume |-> v.Volume,
                  InstanceID |-> v.InstanceID, FloatingIPPool |-> v.FloatingIPPool,
                  FloatingIP |-> v.FloatingIP]
        m == [alias EXCEPT !.FloatingIP = jsonFloatingIP(@)]
    IN  [result |-> "record", record |-> m]

\* Serializes a copy of the descriptor, reads the result back as a map and
\* puts the identifier of the floating IP into its "FloatingIP" entry.  The
\* entry is taken for an object without a test: when it is null the
\* conversion panics and nothing is returned.
MarshalJSON(v) ==
    LET alias == [ImageID |-> v.ImageID, Volume |-> v.Volume,
                  InstanceID |-> v.InstanceID, FloatingIPPool |-> v.FloatingIPPool,
                  FloatingIP |-> v.FloatingIP]
        m == [alias EXCEPT !.FloatingIP = jsonFloatingIP(@)]
    IN  IF m.FloatingIP.null
        THEN [result |-> "panic", record |-> NoJSON.record]
        ELSE [result |-> "record",
              record |-> [m EXCEPT !.FloatingIP.obj = SetKey(@, "id", v.FloatingIP.ID)]]

\* Reading the "FloatingIP" entry of a record back into a floating IP: the
\* identifier from "id" and the address from "ip", empty when the key is absent.
UnmarshalFloatingIP(entry) ==
    IF entry.null
    THEN NilFloatingIP
    ELSE [ID |-> IF HasKey(entry.obj, "id") THEN ValueOf(entry.obj, "id") ELSE NoID,
          IP |-> IF HasKey(entry.obj, "ip") THEN ValueOf(entry.obj, "ip") ELSE 0]

(***************************************************************************)
(* The lifecycle of one descriptor                                         *)
(***************************************************************************)
\* The descriptor as the caller constructs it.
NewVM(image, pool, size) ==
    [ImageID |-> image, InstanceID |-> NoID, FloatingIP |-> NilFloatingIP,
     FloatingIPPool |-> pool, Volume |-> [ID |-> NoID, Size |-> size],
     computeClient |-> FALSE]

Cur == [vm |-> vm, cloud |-> cloud, calls |-> << >>]

\* No operation is running: the caller has taken the result of the last one.
NoOperation ==
    [op |-> "", calls |-> << >>, err |-> Nil, state |-> "", json |-> NoJSON]

Done(op, r, state) ==
    /\ vm' = r.vm
    /\ cloud' = r.cloud
    /\ last' = [op |-> op, calls |-> r.calls, err |-> r.err, state |-> state,
                json |-> NoJSON]

Init ==
    /\ \E image \in {"", "img-explicit"}, pool \in {"", "public"}, size \in {0, 1} :
           vm = NewVM(image, pool, size)
    /\ cloud = [created |-> 0, servers |-> {}, fips |-> {}]
    /\ last = NoOperation

\* The responses the calls of Destroy can ask for on descriptor v; the others
\* are left at their defaults.
DestroyAsks(v, de) ==
    LET d == DestroyEnvDefault
    IN  /\ (v.InstanceID = NoID => de = d)
        /\ (v.computeClient => de.client)
        /\ (v.FloatingIP = NilFloatingIP => de.disassoc /\ de.fipDelete)
        /\ (v.Volume.ID = NoID => de.vol = d.vol)

\* The responses the calls of Provision can ask for on descriptor v.
ProvisionAsks(v, pe) ==
    LET p == ProvisionEnvDefault
    IN  /\ (v.computeClient => pe.client)
        /\ (v.ImageID # "" => pe.find = p.find)
        /\ (v.FloatingIPPool = "" =>
               /\ pe.fipCreate /\ pe.assoc /\ pe.fipDelete /\ pe.ssh
               /\ pe.vol = p.vol)
        /\ (v.Volume.Size = 0 => pe.vol = p.vol)

\* The responses the Destroy that Provision cleans up with can ask for.
CleanupAsks(v, pe, de) ==
    LET d == DestroyEnvDefault
        creates == /\ pe.client /\ pe.flavor /\ pe.find # "err"
                   /\ (pe.find = "none" => pe.upload)
                   /\ pe.create
        associates == /\ creates /\ pe.run = "ok" /\ v.FloatingIPPool # ""
                      /\ pe.fipCreate /\ pe.assoc
        succeeds == associates /\ pe.ssh /\ pe.vol = "ok"
    IN  /\ de.client
        /\ (~creates \/ succeeds => de = d)
        /\ (v.FloatingIP = NilFloatingIP /\ ~associates =>
               de.disassoc /\ de.fipDelete)
        /\ (v.Volume.ID = NoID => de.vol = d.vol)

\* The responses the calls of GetState, Halt and Start can ask for; wanted is
\* the status with which the operation goes on to its stop or start call.
\* Only the wait of Halt can see the instance report an error; the wait for
\* SSH of Start either succeeds or runs out of time.
PowerAsks(v, he, wanted) ==
    /\ (v.InstanceID = NoID => he = PowerEnvDefault)
    /\ (v.computeClient => he.client)
    /\ (he.server # wanted => he.action /\ he.wait = "ok")
    /\ (wanted # StateActive => he.wait # "error")

DoProvision ==
    /\ last = NoOperation
    /\ cloud.created < MaxInstances
    /\ \E pe \in ProvisionEnvs :
           /\ ProvisionAsks(vm, pe)
           /\ \E de \in DestroyEnvs :
                  /\ CleanupAsks(vm, pe, de)
                  /\ Done("Provision", Provision(Cur, pe, de), "")

DoDestroy ==
    /\ last = NoOperation
    /\ \E de \in DestroyEnvs :
           /\ DestroyAsks(vm, de)
           /\ Done("Destroy", Destroy(Cur, de), "")

DoHalt ==
    /\ last = NoOperation
    /\ \E he \in PowerEnvs :
           /\ PowerAsks(vm, he, StateActive)
           /\ Done("Halt", Halt(Cur, he), "")

DoStart ==
    /\ last = NoOperation
    /\ \E he \in PowerEnvs :
           /\ PowerAsks(vm, he, StateShutOff)
           /\ Done("Start", Start(Cur, he), "")

DoGetState ==
    /\ last = NoOperation
    /\ \E he \in PowerEnvs :
           /\ PowerAsks(vm, he, "")
           /\ LET g == GetState(Cur, he)
              IN  Done("GetState", Ret(g.s, g.err), g.state)

DoMarshalJSON ==
    /\ last = NoOperation
    /\ last' = [op |-> "MarshalJSON", calls |-> << >>, err |-> Nil, state |-> "",
                json |-> MarshalJSON(vm)]
    /\ UNCHANGED <<vm, cloud>>

\* The operation has returned; the caller goes on to the next one.
DoReturn ==
    /\ last # NoOperation
    /\ last' = NoOperation
    /\ UNCHANGED <<vm, cloud>>

Next ==
    \/ DoProvision
    \/ DoDestroy
    \/ DoHalt
    \/ DoStart
    \/ DoGetState
    \/ DoMarshalJSON
    \/ DoReturn

Spec == Init /\ [][Next]_vars

(***************************************************************************)
(* Reading the record of the last operation                                *)
(***************************************************************************)
Calls == last.calls

Idx == DOMAIN last.calls

Issued(name) == \E i \in Idx : Calls[i].call = name

Failed(name) == \E i \in Idx : Calls[i].call = name /\ ~Calls[i].ok

Succeeded(name) == \E i \in Idx : Calls[i].call = name /\ Calls[i].ok

Count(name) == Cardinality({i \in Idx : Calls[i].call = name})

Contains(err, part) == \E i \in DOMAIN err : err[i] = part

DeleteCalls == {"servers.Delete", "floatingips.Delete", "volumes.Delete"}

\* The steps of Provision that follow the creation of the instance.
LaterSteps ==
    {"waitUntil", "floatingips.Create", "floatingips.AssociateInstance",
     "waitUntilSSHReady", "volumes.Create", "volumeattach.Create"}

\* A step of the last Provision after the creation of the instance failed.
LaterStepFailed ==
    \/ \E i \in Idx : Calls[i].call \in LaterSteps /\ ~Calls[i].ok
    \/ Succeeded("waitUntil") /\ vm.FloatingIPPool = ""

(***************************************************************************)
(* Claims                                                                  *)
(***************************************************************************)
\* C1: a Provision whose instance-create call succeeded and in which a later
\* step failed (or which returns an error) has issued a delete-instance call
\* for the created identifier, after the create call, and returns an error.
C1_FailedProvisionDeletesInstance ==
    last.op = "Provision" =>
        \A i \in Idx :
            (Calls[i].call = "servers.Create" /\ Calls[i].ok
                /\ (LaterStepFailed \/ last.err # Nil)) =>
                /\ last.err # Nil
                /\ \E j \in Idx : /\ j > i
                                  /\ Calls[j].call = "servers.Delete"
                                  /\ Calls[j].arg = Calls[i].arg

\* C1 witness: the volume could not be attached, the last step of Provision,
\* and the instance created by that call was deleted.
C1_Witness ==
    /\ last.op = "Provision"
    /\ Succeeded("servers.Create")
    /\ Failed("volumeattach.Create")
    /\ Issued("servers.Delete")
    /\ last.err # Nil

\* C2: a Provision that returns nil made every one of its calls succeed:
\* flavor and image resolved, instance created and seen running, floating IP
\* allocated and associated, SSH ready, the volume created and attached when
\* one was asked for; the descriptor holds the created instance and a floating
\* IP record, and no delete call was made.
C2_NilOnlyIfEveryStepSucceeded ==
    (last.op = "Provision" /\ last.err = Nil) =>
        /\ \A i \in Idx : Calls[i].ok
        /\ Succeeded("flavors.IDFromName")
        /\ vm.ImageID # ""
        /\ \E i \in Idx : /\ Calls[i].call = "servers.Create"
                          /\ Calls[i].arg = vm.InstanceID
        /\ Succeeded("waitUntil")
        /\ Succeeded("floatingips.Create")
        /\ Succeeded("floatingips.AssociateInstance")
        /\ Succeeded("waitUntilSSHReady")
        /\ (vm.Volume.Size > 0 =>
               /\ Succeeded("volumes.Create")
               /\ Succeeded("volumeattach.Create")
               /\ vm.Volume.ID # NoID)
        /\ vm.InstanceID # NoID
        /\ vm.FloatingIP # NilFloatingIP
        /\ \A i \in Idx : Calls[i].call \notin DeleteCalls

\* C2 witness: a Provision that uploaded the image and attached a volume
\* returned nil.
C2_Witness ==
    /\ last.op = "Provision"
    /\ last.err = Nil
    /\ Succeeded("images.Create")
    /\ Succeeded("volumeattach.Create")

\* Destroy could not obtain the compute client.
ClientFailed == Contains(last.err, ErrAuthenticatingClient[1])

\* Every stage of Destroy was attempted, the result is nil exactly when every
\* call succeeded, and every failed call is named in the returned error.
EveryStageAttempted ==
    /\ (vm.FloatingIP # NilFloatingIP => Issued("floatingips.DisassociateInstance"))
    /\ (vm.Volume.ID # NoID => Issued("volumeattach.Delete"))
    /\ \E i \in Idx : /\ Calls[i].call = "servers.Delete"
                      /\ Calls[i].arg = vm.InstanceID
    /\ (last.err = Nil <=> \A i \in Idx : Calls[i].ok)
    /\ \A i \in Idx : ~Calls[i].ok => Contains(last.err, Calls[i].call)

\* C3 as stated: Destroy on a descriptor with an instance identifier always
\* attempts every stage, the delete-instance call included, and returns nil
\* exactly when every attempted stage succeeded.
C3_Original ==
    (last.op = "Destroy" /\ vm.InstanceID # NoID) => EveryStageAttempted

\* C3 amended: Destroy on a descriptor with an instance identifier either
\* fails to obtain the compute client, and then returns that error without
\* attempting any stage, or attempts every stage whatever the earlier stages
\* did, the delete-instance call included, returns nil exactly when every
\* call succeeded and otherwise an error naming every call that failed.
C3_NoShortCircuitOnceClientObtained ==
    (last.op = "Destroy" /\ vm.InstanceID # NoID) =>
        IF ClientFailed
        THEN Calls = << >> /\ last.err # Nil
        ELSE EveryStageAttempted

\* C3 witness: the floating IP stage and the volume stage both failed and
\* the instance was still deleted.
C3_Witness ==
    /\ last.op = "Destroy"
    /\ Failed("floatingips.DisassociateInstance")
    /\ Failed("volumeattach.Delete")
    /\ Succeeded("servers.Delete")
    /\ last.err # Nil

\* C4 as stated: a Destroy that disassociates the floating IP also issues
\* the delete-floating-IP call, even if the disassociate call failed.
C4_Original ==
    (last.op = "Destroy" /\ Issued("floatingips.DisassociateInstance")) =>
        Issued("floatingips.Delete")

\* C4 amended: teardown of a descriptor holding a floating-IP record issues
\* the disassociate call by IP string; the delete call by provider identifier
\* follows exactly when the disassociate call succeeded, and its failure is
\* then reported; when the disassociate call fails, only that failure is
\* reported and no delete call is made for the floating IP.
C4_DeleteOnlyAfterDisassociate ==
    /\ (last.op = "Destroy" /\ vm.InstanceID # NoID /\ ~ClientFailed
            /\ vm.FloatingIP # NilFloatingIP) =>
           Issued("floatingips.DisassociateInstance")
    /\ \A i \in Idx :
           Calls[i].call = "floatingips.DisassociateInstance" =>
               /\ Calls[i].arg = vm.FloatingIP.IP
               /\ IF Calls[i].ok
                  THEN /\ i + 1 \in Idx
                       /\ Calls[i + 1].call = "floatingips.Delete"
                       /\ Calls[i + 1].arg = vm.FloatingIP.ID
                       /\ (~Calls[i + 1].ok =>
                              Contains(last.err, "floatingips.Delete"))
                  ELSE /\ Contains(last.err, "floatingips.DisassociateInstance")
                       /\ \A j \in Idx : j > i => Calls[j].call # "floatingips.Delete"
                       /\ ~Contains(last.err, "unable to delete floating ip:")

\* C4 witness: the disassociate call of a Destroy failed and no delete call
\* was made for the floating IP.
C4_Witness ==
    /\ last.op = "Destroy"
    /\ Failed("floatingips.DisassociateInstance")
    /\ ~Issued("floatingips.Delete")
    /\ Issued("servers.Delete")

\* C5 as stated: after a Destroy that ran its stages the descriptor is an
\* empty shell: no instance identifier, no floating-IP record, no volume
\* identifier, no provider handle.
C5_Original ==
    (last.op = "Destroy" /\ Issued("servers.Delete")) =>
        /\ vm.InstanceID = NoID
        /\ vm.FloatingIP = NilFloatingIP
        /\ vm.Volume.ID = NoID
        /\ ~vm.computeClient

\* C5 amended: a Destroy that obtained the client on a descriptor with an
\* instance identifier clears the provider handle and nothing else: the
\* instance identifier and the floating-IP record are left as they were, so
\* that Destroy never returns the missing-instance-identifier error on such a
\* descriptor, however many times it ran before, and issues the
\* delete-instance call for the same identifier again.
C5_DestroyClearsOnlyTheClient ==
    [][(last'.op = "Destroy" /\ vm.InstanceID # NoID) =>
          /\ vm'.InstanceID = vm.InstanceID
          /\ vm'.FloatingIP = vm.FloatingIP
          /\ last'.err # ErrNoInstanceID
          /\ (~ClientFailed' =>
                 /\ ~vm'.computeClient
                 /\ \E i \in DOMAIN last'.calls :
                        /\ last'.calls[i].call = "servers.Delete"
                        /\ last'.calls[i].arg = vm.InstanceID)]_vars

\* C5 witness: a Destroy in which every stage succeeded left the instance
\* identifier and the floating-IP record on the descriptor, without a client.
C5_Witness ==
    /\ last.op = "Destroy"
    /\ last.err = Nil
    /\ Succeeded("floatingips.Delete")
    /\ Succeeded("servers.Delete")
    /\ vm.InstanceID # NoID
    /\ vm.FloatingIP # NilFloatingIP
    /\ ~vm.computeClient

\* C6: when a Provision on a descriptor without floating-IP record has the
\* association call fail, the calls that follow are exactly one delete call
\* for the floating IP just allocated and then one delete-instance call for
\* the instance just created; no disassociate call is made, the floating-IP
\* record stays nil, and the returned error holds the association failure
\* and, exactly when the delete-instance call failed, that failure too.
C6_AssociationFailure ==
    [][(last'.op = "Provision" /\ vm.FloatingIP = NilFloatingIP) =>
          \A i \in DOMAIN last'.calls :
              (last'.calls[i].call = "floatingips.AssociateInstance"
                  /\ ~last'.calls[i].ok) =>
                  /\ Len(last'.calls) = i + 2
                  /\ last'.calls[i - 1].call = "floatingips.Create"
                  /\ last'.calls[i + 1].call = "floatingips.Delete"
                  /\ last'.calls[i + 1].arg = last'.calls[i - 1].arg
                  /\ last'.calls[i + 2].call = "servers.Delete"
                  /\ \E j \in DOMAIN last'.calls :
                         /\ last'.calls[j].call = "servers.Create"
                         /\ last'.calls[j].ok
                         /\ last'.calls[j].arg = last'.calls[i + 2].arg
                         /\ last'.calls[j].arg = vm'.InstanceID
                  /\ Count("floatingips.Delete")' = 1
                  /\ Count("servers.Delete")' = 1
                  /\ ~Issued("floatingips.DisassociateInstance")'
                  /\ vm'.FloatingIP = NilFloatingIP
                  /\ Contains(last'.err, "floatingips.AssociateInstance")
                  /\ (Contains(last'.err, "servers.Delete")
                          <=> ~last'.calls[i + 2].ok)]_vars

\* C6 witness: the association failed and the instance was deleted.
C6_Witness ==
    /\ last.op = "Provision"
    /\ Failed("floatingips.AssociateInstance")
    /\ Succeeded("floatingips.Delete")
    /\ Succeeded("servers.Delete")
    /\ vm.FloatingIP = NilFloatingIP

\* C7 as stated: once set, the instance identifier never changes to a
\* different non-empty value.
C7_Original ==
    [][(vm.InstanceID # NoID /\ vm'.InstanceID # NoID) =>
          vm'.InstanceID = vm.InstanceID]_vars

\* C7 amended: Destroy, Halt, Start and GetState never change the instance
\* identifier. Provision does not look at it: whatever identifier the
\* descriptor holds, a Provision whose earlier calls succeeded issues the
\* instance-create call, once, and when that call succeeds the identifier it
\* returned replaces the one on the descriptor; otherwise the identifier is
\* left as it was.
C7_OnlyProvisionReplacesInstanceID ==
    [][/\ (last'.op \in {"Destroy", "Halt", "Start", "GetState"} =>
              vm'.InstanceID = vm.InstanceID)
       /\ (last'.op = "Provision" =>
              /\ IF Succeeded("servers.Create")'
                 THEN /\ vm'.InstanceID # vm.InstanceID
                      /\ \E i \in DOMAIN last'.calls :
                             /\ last'.calls[i].call = "servers.Create"
                             /\ last'.calls[i].arg = vm'.InstanceID
                 ELSE vm'.InstanceID = vm.InstanceID
              /\ Count("servers.Create")' <= 1
              /\ ((/\ ~ClientFailed'
                   /\ ~Failed("flavors.IDFromName")'
                   /\ ~Failed("images.List")'
                   /\ ~Failed("images.Create")') =>
                     Issued("servers.Create")'))]_vars

\* C7 witness: a Provision on a descriptor that already named an instance
\* created a second one and recorded its identifier.
C7_Witness ==
    /\ last.op = "Provision"
    /\ Succeeded("servers.Create")
    /\ cloud.created > 1
    /\ vm.InstanceID = cloud.created

\* The calls Destroy makes.
TeardownCalls ==
    {"floatingips.DisassociateInstance", "floatingips.Delete",
     "volumeattach.Delete", "volumes.Delete", "servers.Delete"}

\* How the error of the step of Provision that failed begins.
PrimaryCause ==
    IF Failed("waitUntil")
    THEN {ErrActionTimeout[1], "failed to bring the VM to state:"}
    ELSE IF ~Issued("floatingips.Create") THEN {"empty floating IP pool"}
    ELSE IF Failed("floatingips.Create") THEN {"unable to create a floating ip:"}
    ELSE IF Failed("floatingips.AssociateInstance")
         THEN {"unable to associate a floating ip:"}
    ELSE IF Failed("waitUntilSSHReady") THEN {"ssh not ready:"}
    ELSE IF Failed("volumes.Create") THEN {"failed to create the volume:"}
    ELSE {"failed to attach the volume:"}

\* C8: when a step of Provision after the creation of the instance fails,
\* the returned error is not nil and begins with the cause of that step,
\* whatever the teardown did, and every call of the teardown that failed is
\* named after it.
C8_CauseAndTeardownFailureBothReturned ==
    (last.op = "Provision" /\ Succeeded("servers.Create") /\ LaterStepFailed) =>
        /\ last.err # Nil
        /\ last.err[1] \in PrimaryCause
        /\ \A i \in Idx :
               (Calls[i].call \in LaterSteps \ {"waitUntil", "waitUntilSSHReady"}
                   /\ ~Calls[i].ok) => Contains(last.err, Calls[i].call)
        /\ \A i \in Idx :
               (Calls[i].call \in TeardownCalls /\ ~Calls[i].ok) =>
                   \E k \in DOMAIN last.err : k > 1 /\ last.err[k] = Calls[i].call

\* C8 witness: the SSH readiness wait failed and then the deletion of the
\* instance failed too.
C8_Witness ==
    /\ last.op = "Provision"
    /\ Failed("waitUntilSSHReady")
    /\ Failed("servers.Delete")
    /\ Contains(last.err, "ssh not ready:")
    /\ Contains(last.err, "servers.Delete")

\* C9: Destroy on a descriptor without instance identifier returns the
\* missing-instance-identifier error, makes no call and leaves the descriptor
\* and the provider as they were, so that repeating it gives the same again.
C9_DestroyWithoutInstanceID ==
    [][(last'.op = "Destroy" /\ vm.InstanceID = NoID) =>
          /\ last'.err = ErrNoInstanceID
          /\ last'.calls = << >>
          /\ vm' = vm
          /\ cloud' = cloud]_vars

\* C9 witness: Destroy returned the missing-instance-identifier error on a
\* descriptor that holds a client from an earlier Provision.
C9_Witness ==
    /\ last.op = "Destroy"
    /\ last.err = ErrNoInstanceID
    /\ last.calls = << >>
    /\ vm.InstanceID = NoID
    /\ vm.computeClient

\* The status Halt or Start read from the provider, if it read one.
StatusRead ==
    IF \E i \in Idx : Calls[i].call = "servers.Get" /\ Calls[i].ok
    THEN Calls[CHOOSE i \in Idx : Calls[i].call = "servers.Get" /\ Calls[i].ok].res
    ELSE "none"

\* C10: Halt issues the stop call only with an instance identifier and after
\* reading the status ACTIVE, Start issues the start call only with an
\* instance identifier and after reading the status SHUTOFF; in every other
\* case they return an error and issue neither call.
C10_PowerCallOnlyFromRequiredState ==
    /\ last.op = "Halt" =>
           /\ ~Issued("startstop.Start")
           /\ (Issued("startstop.Stop") <=>
                   (vm.InstanceID # NoID /\ StatusRead = StateActive))
           /\ (Issued("startstop.Stop") => Calls[1].call = "servers.Get")
           /\ (~Issued("startstop.Stop") => last.err # Nil)
    /\ last.op = "Start" =>
           /\ ~Issued("startstop.Stop")
           /\ (Issued("startstop.Start") <=>
                   (vm.InstanceID # NoID /\ StatusRead = StateShutOff))
           /\ (Issued("startstop.Start") => Calls[1].call = "servers.Get")
           /\ (~Issued("startstop.Start") => last.err # Nil)

\* C10 witness: Halt on an instance that is already halted returned an error
\* without a stop call.
C10_Witness ==
    /\ last.op = "Halt"
    /\ StatusRead = StateShutOff
    /\ ~Issued("startstop.Stop")
    /\ last.err # Nil

(***************************************************************************)
(* C11                                                                     *)
(***************************************************************************)
ImageCalls == {"images.List", "images.Create"}

\* C11: a Provision whose flavor lookup fails returns ErrNoFlavor, has issued
\* no image search, no image upload, no instance-create and no delete call,
\* and leaves InstanceID, ImageID and FloatingIP as they were.
C11_FlavorNotFound ==
    [][(last'.op = "Provision" /\ Failed("flavors.IDFromName")') =>
           /\ last'.err = ErrNoFlavor
           /\ \A i \in DOMAIN last'.calls :
                  last'.calls[i].call \notin
                      ImageCalls \cup {"servers.Create"} \cup DeleteCalls
           /\ vm'.InstanceID = vm.InstanceID
           /\ vm'.ImageID = vm.ImageID
           /\ vm'.FloatingIP = vm.FloatingIP]_vars

\* A Provision of a descriptor that names an instance fails on the flavor.
C11_Witness ==
    /\ last.op = "Provision"
    /\ Failed("flavors.IDFromName")
    /\ last.err = ErrNoFlavor
    /\ vm.InstanceID # NoID
    /\ vm.FloatingIP # NilFloatingIP

(***************************************************************************)
(* C12                                                                     *)
(***************************************************************************)
\* C12: serializing a descriptor that has a floating IP gives a record whose
\* "FloatingIP" entry carries the identifier of the floating IP under "id"
\* next to its address under "ip", so that reading the entry back gives the
\* identifier the descriptor had.
C12_RoundTripKeepsFloatingIPID ==
    (last.op = "MarshalJSON" /\ vm.FloatingIP # NilFloatingIP) =>
        /\ last.json.result = "record"
        /\ ~last.json.record.FloatingIP.null
        /\ <<"id", vm.FloatingIP.ID>> \in last.json.record.FloatingIP.obj
        /\ <<"ip", vm.FloatingIP.IP>> \in last.json.record.FloatingIP.obj
        /\ UnmarshalFloatingIP(last.json.record.FloatingIP) = vm.FloatingIP

\* A descriptor with a floating IP has been serialized.
C12_Witness ==
    /\ last.op = "MarshalJSON"
    /\ vm.FloatingIP # NilFloatingIP
    /\ vm.FloatingIP.ID # NoID
    /\ last.json.result = "record"

(***************************************************************************)
(* C13                                                                     *)
(***************************************************************************)
\* C13: GetState leaves the descriptor as it was; when the provider reports no
\* instance it returns the info-failure error; and for every status the
\* provider reports it returns a nil error with Running exactly for ACTIVE,
\* Halted exactly for SHUTOFF, Error exactly for ERROR and Unknown otherwise.
C13_GetStateMapsStatus ==
    [][last'.op = "GetState" =>
           /\ vm' = vm
           /\ (StatusRead' = "nil" =>
                   last'.err = ErrVMInfoFailed /\ last'.state = "")
           /\ (StatusRead' \in Statuses =>
                   /\ last'.err = Nil
                   /\ last'.state \in {VMRunning, VMHalted, VMError, VMUnknown}
                   /\ (last'.state = VMRunning <=> StatusRead' = StateActive)
                   /\ (last'.state = VMHalted <=> StatusRead' = StateShutOff)
                   /\ (last'.state = VMError <=> StatusRead' = StateError))]_vars

\* GetState has read a status that is none of the three it knows.
C13_Witness ==
    /\ last.op = "GetState"
    /\ StatusRead \in Statuses \ {StateActive, StateShutOff, StateError}
    /\ last.state = VMUnknown
    /\ last.err = Nil

(***************************************************************************)
(* C14                                                                     *)
(***************************************************************************)
\* Among the calls is a successful one of this name for this argument.
SucceededFor(calls, name, arg) ==
    \E i \in DOMAIN calls :
        calls[i].call = name /\ calls[i].arg = arg /\ calls[i].ok

\* An identifier is recorded only by a Provision whose create or associate
\* call for it succeeded.
RecordedOnlyAfterSuccess ==
    /\ (vm'.InstanceID # vm.InstanceID =>
            /\ last'.op = "Provision"
            /\ SucceededFor(last'.calls, "servers.Create", vm'.InstanceID))
    /\ (vm'.FloatingIP # vm.FloatingIP =>
            /\ last'.op = "Provision"
            /\ SucceededFor(last'.calls, "floatingips.AssociateInstance", vm'.FloatingIP.IP))

\* C14 as stated: identifiers are recorded only after their create or
\* associate call succeeded, and an identifier on the descriptor names a
\* resource that exists unless a delete call for it has failed.  The resource
\* is new in the step that records its identifier, so only the calls of that
\* step can have named it.
C14_Original ==
    [][/\ RecordedOnlyAfterSuccess
       /\ (vm'.InstanceID # vm.InstanceID =>
               \/ vm'.InstanceID \in cloud'.servers
               \/ Failed("servers.Delete")')
       /\ (vm'.FloatingIP # vm.FloatingIP =>
               \/ vm'.FloatingIP.ID \in cloud'.fips
               \/ Failed("floatingips.Delete")')]_vars

\* C14, amended: identifiers are empty at first and recorded only by a
\* Provision whose create or associate call for them succeeded; after a
\* Provision that returned nil the instance and the floating IP the descriptor
\* names exist; and a named resource ceases to exist only through a
\* successful delete call of a Destroy or of the teardown of a Provision,
\* which leave its identifier on the descriptor.
C14_PresentOnlyAfterSuccess ==
    /\ [](/\ vm.InstanceID \in 0..cloud.created
          /\ vm.FloatingIP.ID \in 0..cloud.created)
    /\ [][/\ RecordedOnlyAfterSuccess
          /\ ((last'.op = "Provision" /\ last'.err = Nil) =>
                  /\ vm'.InstanceID \in cloud'.servers
                  /\ vm'.FloatingIP.ID \in cloud'.fips)
          /\ ((vm.InstanceID \in cloud.servers /\ vm.InstanceID \notin cloud'.servers) =>
                  /\ last'.op \in {"Destroy", "Provision"}
                  /\ SucceededFor(last'.calls, "servers.Delete", vm.InstanceID)
                  /\ (last'.op = "Destroy" => vm'.InstanceID = vm.InstanceID))
          /\ ((vm.FloatingIP.ID \in cloud.fips /\ vm.FloatingIP.ID \notin cloud'.fips) =>
                  /\ last'.op \in {"Destroy", "Provision"}
                  /\ SucceededFor(last'.calls, "floatingips.Delete", vm.FloatingIP.ID)
                  /\ (last'.op = "Destroy" => vm'.FloatingIP = vm.FloatingIP))]_vars

\* After a Destroy in which every call succeeded the descriptor still names
\* the instance and the floating IP, and neither exists.
C14_Witness ==
    /\ last.op = "Destroy"
    /\ last.err = Nil
    /\ vm.InstanceID # NoID
    /\ vm.InstanceID \notin cloud.servers
    /\ vm.FloatingIP # NilFloatingIP
    /\ vm.FloatingIP.ID \notin cloud.fips

(***************************************************************************)
(* C15                                                                     *)
(***************************************************************************)
\* The place of a call in the stages of Destroy.
StageOrder(call) ==
    IF call = "floatingips.DisassociateInstance" THEN 1
    ELSE IF call = "floatingips.Delete" THEN 2
    ELSE IF call = "volumeattach.Delete" THEN 3
    ELSE IF call = "volumes.Delete" THEN 4
    ELSE IF call = "servers.Delete" THEN 5
    ELSE 0

\* C15: a Destroy that reaches its stages issues its calls in the order
\* floating IP (disassociate, then delete), volume (detach, then delete),
\* instance: the delete of the instance is its last call, the floating IP
\* stage is attempted exactly when the descriptor has a floating IP and the
\* volume stage exactly when it has a volume identifier.  A Destroy that
\* returns before the stages issues no call.
C15_DestroyStageOrder ==
    [][last'.op = "Destroy" =>
           LET calls == last'.calls
               n == Len(calls)
               issued(name, arg) ==
                   \E i \in 1..n : calls[i].call = name /\ calls[i].arg = arg
           IN  /\ \A i \in 1..n : StageOrder(calls[i].call) > 0
               /\ \A i, j \in 1..n :
                      i < j => StageOrder(calls[i].call) < StageOrder(calls[j].call)
               /\ (n > 0 =>
                      /\ calls[n].call = "servers.Delete"
                      /\ calls[n].arg = vm.InstanceID
                      /\ (issued("floatingips.DisassociateInstance", vm.FloatingIP.IP)
                              <=> vm.FloatingIP # NilFloatingIP)
                      /\ (issued("volumeattach.Delete", vm.Volume.ID)
                              <=> vm.Volume.ID # NoID))
               /\ \A i \in 1..n :
                      /\ (calls[i].call = "floatingips.Delete" =>
                              i > 1 /\ calls[i - 1].call = "floatingips.DisassociateInstance")
                      /\ (calls[i].call = "volumes.Delete" =>
                              i > 1 /\ calls[i - 1].call = "volumeattach.Delete")]_vars

\* A Destroy has gone through all three stages, with all five calls.
C15_Witness ==
    /\ last.op = "Destroy"
    /\ Len(Calls) = 5
    /\ Calls[1].call = "floatingips.DisassociateInstance"
    /\ Calls[5].call = "servers.Delete"

(***************************************************************************)
(* C16                                                                     *)
(***************************************************************************)
\* C16: the steps of a Provision come in a fixed order, each right after the
\* success of the one before: the wait for the running state polls the
\* instance that the create just before it returned, whose identifier is on
\* the descriptor; a floating IP is allocated only after that wait succeeded
\* and associated only after it was allocated; the wait for SSH comes only
\* after a successful associate, with the floating IP on the descriptor, so
\* that a teardown after it disassociates that floating IP; and the volume is
\* created only after SSH was ready and only when Volume.Size is positive.
C16_ProvisionStepOrder ==
    [][last'.op = "Provision" =>
           LET calls == last'.calls
               n == Len(calls)
               after(i, name) ==
                   i > 1 /\ calls[i - 1].call = name /\ calls[i - 1].ok
           IN  \A i \in 1..n :
                   /\ (calls[i].call = "servers.Create" =>
                           \A j \in 1..(i - 1) : calls[j].ok)
                   /\ (calls[i].call = "servers.Create" /\ calls[i].ok =>
                           /\ vm'.InstanceID = calls[i].arg
                           /\ i < n
                           /\ calls[i + 1].call = "waitUntil"
                           /\ calls[i + 1].arg = calls[i].arg)
                   /\ (calls[i].call = "waitUntil" => after(i, "servers.Create"))
                   /\ (calls[i].call = "floatingips.Create" => after(i, "waitUntil"))
                   /\ (calls[i].call = "floatingips.AssociateInstance" =>
                           after(i, "floatingips.Create"))
                   /\ (calls[i].call = "waitUntilSSHReady" =>
                           /\ after(i, "floatingips.AssociateInstance")
                           /\ vm'.FloatingIP.IP = calls[i - 1].arg
                           /\ (~calls[i].ok =>
                                   /\ i < n
                                   /\ calls[i + 1].call = "floatingips.DisassociateInstance"
                                   /\ calls[i + 1].arg = calls[i - 1].arg))
                   /\ (calls[i].call = "volumes.Create" =>
                           /\ after(i, "waitUntilSSHReady")
                           /\ vm.Volume.Size > 0)
                   /\ (calls[i].call = "volumeattach.Create" =>
                           after(i, "volumes.Create"))]_vars

\* A Provision has gone through every step, the volume included.
C16_Witness ==
    /\ last.op = "Provision"
    /\ last.err = Nil
    /\ Succeeded("waitUntilSSHReady")
    /\ Succeeded("volumeattach.Create")
    /\ vm.Volume.ID # NoID

(***************************************************************************)
(* C17                                                                     *)
(***************************************************************************)
\* The steps of Provision up to the creation of the instance.
EarlySteps == {"flavors.IDFromName", "images.List", "images.Create", "servers.Create"}

\* The error Provision returns when an early step fails.
EarlyError(call) ==
    IF call = "flavors.IDFromName" THEN ErrNoFlavor
    ELSE IF call = "images.List" THEN <<"error on searching image:", "images.List">>
    ELSE <<call>>

\* C17: Provision retries nothing and tears nothing down for a failure up to
\* and including the creation of the instance: when the flavor lookup, the
\* image search, the image upload or the create call fails, that call is the
\* last one, its error is returned, the instance identifier stays as it was
\* and no teardown call is issued; and no step is issued twice, so that the
\* create, the floating IP allocation and the associate are issued at most once.
C17_NoRetryNoTeardownForEarlyFailure ==
    [][last'.op = "Provision" =>
           LET calls == last'.calls
               n == Len(calls)
           IN  /\ \A i, j \in 1..n :
                      (i # j /\ calls[i].call = calls[j].call) =>
                          calls[i].call \in TeardownCalls
               /\ \A i \in 1..n :
                      (calls[i].call \in EarlySteps /\ ~calls[i].ok) =>
                          /\ i = n
                          /\ last'.err = EarlyError(calls[i].call)
                          /\ vm'.InstanceID = vm.InstanceID
                          /\ vm'.FloatingIP = vm.FloatingIP
                          /\ \A j \in 1..n : calls[j].call \notin TeardownCalls]_vars

\* The create call of a Provision on a descriptor that names an instance fails.
C17_Witness ==
    /\ last.op = "Provision"
    /\ Failed("servers.Create")
    /\ last.err = <<"servers.Create">>
    /\ vm.InstanceID # NoID

(***************************************************************************)
(* C18                                                                     *)
(***************************************************************************)
\* C18: no operation clears or replaces an image identifier that is on the
\* descriptor; a Provision of a descriptor with an image identifier issues no
\* image search and no image upload; and a Provision that resolves the image,
\* by a search that finds it or by an upload, leaves the identifier on the
\* descriptor whether it succeeds or fails later, and has it there whenever it
\* issues the create call.
C18_ImageResolutionPersists ==
    [][/\ (vm.ImageID # "" => vm'.ImageID = vm.ImageID)
       /\ (last'.op = "Provision" =>
               LET calls == last'.calls
               IN  /\ (vm.ImageID # "" =>
                           \A i \in DOMAIN calls : calls[i].call \notin ImageCalls)
                   /\ \A i \in DOMAIN calls :
                          /\ (calls[i].call = "images.List" /\ calls[i].ok
                                  /\ calls[i].res # "" =>
                                  vm'.ImageID = calls[i].res)
                          /\ (calls[i].call = "images.Create" /\ calls[i].ok =>
                                  vm'.ImageID # "")
                          /\ (calls[i].call = "servers.Create" => vm'.ImageID # ""))]_vars

\* A Provision of a descriptor whose image an earlier Provision resolved has
\* gone on to create an instance without an image call.
C18_Witness ==
    /\ last.op = "Provision"
    /\ vm.ImageID \in {"img-found", "img-uploaded"}
    /\ ~Issued("images.List")
    /\ ~Issued("images.Create")
    /\ Issued("servers.Create")

(***************************************************************************)
(* C19                                                                     *)
(***************************************************************************)
\* C19 as stated: a Provision of a descriptor without a floating IP pool
\* issues no create call.
C19_Original ==
    (last.op = "Provision" /\ vm.FloatingIPPool = "") => ~Issued("servers.Create")

\* C19, amended: a Provision of a descriptor without a floating IP pool is not
\* rejected up front.  When its earlier steps succeed it issues the create
\* call and waits for the instance to run; only then does it fail with the
\* empty-pool error and tear down, with a delete call for the instance it
\* created.  It issues no floating IP, SSH or volume step and never returns nil.
C19_EmptyPoolRejectedAfterCreate ==
    [][(last'.op = "Provision" /\ vm.FloatingIPPool = "") =>
           LET calls == last'.calls
               n == Len(calls)
           IN  /\ last'.err # Nil
               /\ \A i \in 1..n :
                      calls[i].call \notin
                          {"floatingips.Create", "floatingips.AssociateInstance",
                           "waitUntilSSHReady", "volumes.Create", "volumeattach.Create"}
               /\ ((n > 0 /\ \A i \in 1..n : calls[i].call \in EarlySteps => calls[i].ok) =>
                       \E i \in 1..n : calls[i].call = "servers.Create" /\ calls[i].ok)
               /\ \A i \in 1..n :
                      (calls[i].call = "waitUntil" /\ calls[i].ok) =>
                          /\ last'.err[1] = "empty floating IP pool"
                          /\ \E j \in (i + 1)..n :
                                 /\ calls[j].call = "servers.Delete"
                                 /\ calls[j].arg = calls[i].arg]_vars

\* A Provision without a pool has created an instance, seen it run, and
\* deleted it again.
C19_Witness ==
    /\ last.op = "Provision"
    /\ vm.FloatingIPPool = ""
    /\ Succeeded("servers.Create")
    /\ Succeeded("waitUntil")
    /\ Succeeded("servers.Delete")
    /\ last.err = <<"empty floating IP pool">>

(***************************************************************************)
(* C20                                                                     *)
(***************************************************************************)
\* C20: serializing the descriptor returns a record or an error and never
\* panics, whatever state the lifecycle has left the descriptor in.
C20_MarshalJSONNeverPanics ==
    last.op = "MarshalJSON" => last.json.result \in {"record", "error"}

====
